---- MODULE Spec2Model ----
(***************************************************************************)
(* Meetup-Toolkit: sync of one Partiful event to a LessWrong draft event.  *)
(*                                                                         *)
(* Python values are modelled as tagged records so that None, strings,    *)
(* booleans, dicts and lists can be compared with one another the way     *)
(* Python compares them.  A string is a sequence of tokens: a token is a  *)
(* word (letters, digits, '.') or a single delimiter character, so that   *)
(* splitting, stripping and substring search are computed, not assumed.   *)
(***************************************************************************)
EXTENDS Integers, Sequences, FiniteSets, TLC

VARIABLES
    lw_posts,   \* LessWrong: the list of stored posts (a post's _id is its index)
    run,        \* one record per orchestrator invocation (sync_event)
    sent,       \* the mutations the target service has applied so far, in order
    started,    \* number of sync_event invocations started so far
    call,       \* a single library call under test: function name and arguments
    ret         \* its outcome, NotCalled until the call has been made

vars == <<lw_posts, run, sent, started, call, ret>>

-----------------------------------------------------------------------------
(* Python values *)

None == [py |-> "None"]
S(s) == [py |-> "str", s |-> s]
B(b) == [py |-> "bool", b |-> b]
D(d) == [py |-> "dict", d |-> d]
L(l) == [py |-> "list", l |-> l]

EmptyDict == [k \in {} |-> None]

IsNone(v) == v.py = "None"

\* bool(v): None, "", False, {} and [] are falsy
Truthy(v) ==
    CASE v.py = "None" -> FALSE
      [] v.py = "str"  -> v.s # <<>>
      [] v.py = "bool" -> v.b
      [] v.py = "dict" -> DOMAIN v.d # {}
      [] v.py = "list" -> v.l # <<>>

\* d.get(k, default) on a dict value
Get(v, k, default) == IF k \in DOMAIN v.d THEN v.d[k] ELSE default

\* outcomes of a call
NotCalled == [py |-> "pending"]
Return(v) == [py |-> "return", value |-> v]
Raise(type, msg) == [py |-> "raise", type |-> type, msg |-> msg]

Returned(o) == o.py = "return"
Raised(o) == o.py = "raise"

\* s is a contiguous part of t (Python's: s in t)
Contains(t, s) ==
    \E i \in 0..(Len(t) - Len(s)) : SubSeq(t, i + 1, i + Len(s)) = s

-----------------------------------------------------------------------------
(* partiful_loader.extract_event_id *)

Delimiters == {":", "/", "?", "#"}
IsWord(tok) == tok \notin Delimiters

\* index of the first position of s holding a token of set T, 0 if none
FirstIn(s, T) ==
    IF \E i \in 1..Len(s) : s[i] \in T
    THEN CHOOSE i \in 1..Len(s) : s[i] \in T /\ \A j \in 1..(i - 1) : s[j] \notin T
    ELSE 0

Drop(s, n) == SubSeq(s, n + 1, Len(s))
Take(s, n) == SubSeq(s, 1, n)

\* urllib.parse.urlsplit, first step: "<scheme>:" when only scheme characters
\* precede the first colon
SplitScheme(url) ==
    LET i == FirstIn(url, {":"})
    IN  IF i > 1 /\ \A j \in 1..(i - 1) : IsWord(url[j])
        THEN [scheme |-> Take(url, i - 1), rest |-> Drop(url, i)]
        ELSE [scheme |-> <<>>, rest |-> url]

\* second step: "//<netloc>", the netloc ending at the first of / ? #
SplitNetloc(url) ==
    IF Len(url) >= 2 /\ url[1] = "/" /\ url[2] = "/"
    THEN LET e == FirstIn(Drop(url, 2), {"/", "?", "#"})
         IN  IF e = 0
             THEN [netloc |-> Drop(url, 2), rest |-> <<>>]
             ELSE [netloc |-> SubSeq(url, 3, e + 1), rest |-> Drop(url, e + 1)]
    ELSE [netloc |-> <<>>, rest |-> url]

\* third step: the path is what precedes the fragment and the query
SplitPath(url) ==
    LET k == FirstIn(url, {"?", "#"})
    IN  IF k = 0 THEN url ELSE Take(url, k - 1)

\* urllib.parse.urlparse, restricted to scheme, netloc and path
urlparse(url) ==
    [scheme |-> SplitScheme(url).scheme,
     netloc |-> SplitNetloc(SplitScheme(url).rest).netloc,
     path |-> SplitPath(SplitNetloc(SplitScheme(url).rest).rest)]

\* str.strip("/")
RECURSIVE lstrip(_)
lstrip(s) == IF s # <<>> /\ s[1] = "/" THEN lstrip(Tail(s)) ELSE s
RECURSIVE rstrip(_)
rstrip(s) == IF s # <<>> /\ s[Len(s)] = "/" THEN rstrip(Take(s, Len(s) - 1)) ELSE s
strip(s) == rstrip(lstrip(s))

\* str.split("/"): the list of the parts between the slashes
RECURSIVE split(_)
split(s) ==
    LET i == FirstIn(s, {"/"})
    IN  IF i = 0 THEN <<s>> ELSE <<Take(s, i - 1)>> \o split(Drop(s, i))

PartifulHosts == {<<"partiful.com">>, <<"www.partiful.com">>}

\* a host check that accepts every host (what a missing domain test would do)
AnyHost(netloc) == netloc # <<>>
IsPartifulHost(netloc) == netloc \in PartifulHosts

extract_event_id(partiful_url) ==
    LET parsed == urlparse(partiful_url)
        path_parts == split(strip(parsed.path))
    IN  IF IsPartifulHost(parsed.netloc)
        THEN IF Len(path_parts) >= 2 /\ path_parts[1] = <<"e">>
             THEN Return(S(path_parts[2]))
             ELSE Raise("ValueError", <<"Invalid Partiful URL format">>)
        ELSE IF parsed.netloc = <<>> /\ parsed.scheme = <<>>
             THEN Return(S(strip(partiful_url)))
             ELSE Raise("ValueError", <<"Invalid Partiful URL format">>)

-----------------------------------------------------------------------------
(* lesswrong_client.graphql_request                                        *)
(* A response is its status code and the outcome of response.json():       *)
(* the decoded body, or JSONDecodeError when the body is not JSON.         *)

RequestExceptions == {"HTTPError", "JSONDecodeError", "ConnectionError"}

\* requests.Response.raise_for_status: HTTPError for 4xx and 5xx, naming the status
\* a status check that never raises
NeverRaises(response) == Return(None)
raise_for_status(response) ==
    IF response.status_code >= 400 /\ response.status_code < 600
    THEN Raise("HTTPError", <<ToString(response.status_code), "Error">>)
    ELSE Return(None)

\* str(e) of a value: a string is itself, an error dict without a message prints
\* as its one field
str(v) ==
    IF v.py = "str" THEN v.s
    ELSE <<"{'code': '">> \o v.d["code"].s \o <<"'}">>

\* sep.join(items)
RECURSIVE join(_, _)
join(sep, items) ==
    IF items = <<>> THEN <<>>
    ELSE IF Len(items) = 1 THEN items[1]
    ELSE items[1] \o sep \o join(sep, Tail(items))

\* only the first message (what reporting errors[0] alone would do)
FirstMessageOnly(errors) ==
    IF errors = <<>> THEN <<>> ELSE <<str(Get(errors[1], "message", S(str(errors[1]))))>>
error_messages(errors) ==
    [i \in 1..Len(errors) |-> str(Get(errors[i], "message", S(str(errors[i]))))]

graphql_request(response) ==
    IF Raised(response.json)
    THEN IF Raised(raise_for_status(response))
         THEN raise_for_status(response)
         ELSE response.json
    ELSE LET data == response.json.value
         IN  IF IsNone(data)
             THEN Raise("TypeError", <<"argument of type 'NoneType' is not iterable">>)
             ELSE IF "errors" \in DOMAIN data.d
             THEN IF IsNone(data.d["errors"])
                  THEN Raise("TypeError", <<"'NoneType' object is not iterable">>)
                  ELSE Raise("ValueError",
                             <<"GraphQL errors: ">> \o join(<<"; ">>, error_messages(data.d["errors"].l)))
             ELSE IF Raised(raise_for_status(response))
                  THEN raise_for_status(response)
                  ELSE Return(data)

-----------------------------------------------------------------------------
(* lesswrong_client.find_event_by_partiful_id, applied to the outcome of   *)
(* its one graphql_request                                                  *)

\* the posts of a list that pass a test, and how many there are
Matching(list, Test(_)) == SelectSeq(list, Test)

\* the first position of list whose element passes Test, 0 if none
FirstWhere(list, Test(_)) ==
    IF \E i \in 1..Len(list) : Test(list[i])
    THEN CHOOSE i \in 1..Len(list) : Test(list[i]) /\ \A j \in 1..(i - 1) : ~Test(list[j])
    ELSE 0

\* line 195: p.get("isEvent") and p.get("title") == title
IsTitledEvent(p, title) ==
    Truthy(Get(p, "isEvent", None)) /\ Get(p, "title", None) = title

\* line 198: post.get("eventRegistrationLink") == partiful_url
LinkMatches(post, partiful_url) ==
    Get(post, "eventRegistrationLink", None) = partiful_url

\* line 214: post.get("contents", {}).get("markdown", "") cannot be evaluated:
\* contents is null (AttributeError) or markdown is null (TypeError)
ContentsIsNull(post) == IsNone(Get(post, "contents", D(EmptyDict)))
MarkdownIsNull(post) ==
    /\ ~ContentsIsNull(post)
    /\ IsNone(Get(Get(post, "contents", D(EmptyDict)), "markdown", S(<<>>)))

\* line 214: partiful_url in post.get("contents", {}).get("markdown", "")
InDescription(post, partiful_url) ==
    Contains(Get(Get(post, "contents", D(EmptyDict)), "markdown", S(<<>>)).s, partiful_url.s)

DataIntegrity(n, where) ==
    Raise("ValueError", <<"Found ", ToString(n), where, "This indicates a data integrity issue.">>)

\* no link match: the search goes on to the description tier
FallThrough == [py |-> "continue"]

\* lines 201-209 without the check for several matches
FirstOfMatches(matches) ==
    IF matches # <<>> THEN Return(matches[1]) ELSE FallThrough
\* lines 201-209: several matches abort, one match is returned, none falls through
ResolveMatches(matches) ==
    IF Len(matches) > 1
    THEN DataIntegrity(Len(matches), " events with the same Partiful URL. ")
    ELSE IF matches # <<>> THEN Return(matches[1]) ELSE FallThrough

\* lines 211-227: the description tier
Fallback(posts, partiful_url) ==
    LET bad == FirstWhere(posts, LAMBDA p : ContentsIsNull(p) \/ MarkdownIsNull(p))
        fallback_matches == Matching(posts, LAMBDA p : InDescription(p, partiful_url))
    IN  IF bad # 0
        THEN IF ContentsIsNull(posts[bad])
             THEN Raise("AttributeError", <<"'NoneType' object has no attribute 'get'">>)
             ELSE Raise("TypeError", <<"argument of type 'NoneType' is not iterable">>)
        ELSE IF Len(fallback_matches) > 1
        THEN DataIntegrity(Len(fallback_matches), " events with Partiful URL in description. ")
        ELSE IF fallback_matches # <<>> THEN Return(fallback_matches[1])
        ELSE Return(None)

find_event_by_partiful_id(gq, title, partiful_url) ==
    IF Raised(gq) THEN gq
    ELSE LET data == Get(gq.value, "data", None)
         IN  IF ~Truthy(data) THEN Return(None)
             ELSE LET posts_output == Get(data, "posts", None)
                  IN  IF ~Truthy(posts_output) THEN Return(None)
                      ELSE LET all_posts == Get(posts_output, "results", L(<<>>))
                           IN  IF IsNone(all_posts)
                               THEN Raise("TypeError", <<"'NoneType' object is not iterable">>)
                               ELSE LET posts == Matching(all_posts.l, LAMBDA p : IsTitledEvent(p, title))
                                        matches == Matching(posts, LAMBDA p : LinkMatches(p, partiful_url))
                                    IN  IF ResolveMatches(matches) # FallThrough
                                        THEN ResolveMatches(matches)
                                        ELSE Fallback(posts, partiful_url)

-----------------------------------------------------------------------------
(* lesswrong_client.build_create_post_mutation / build_update_post_mutation *)

\* "if event_data.get(key): post_data[wire] = event_data[key]"
Optional(event_data, key, wire) ==
    IF Truthy(Get(event_data, key, None)) THEN wire :> event_data.d[key] ELSE EmptyDict

\* lines 291-298 and 363-369: the description wrapped as an html content block
OptionalContents(event_data) ==
    IF Truthy(Get(event_data, "description", None))
    THEN "contents" :> D([originalContents |->
                             D([type |-> S(<<"html">>), data |-> event_data.d["description"]])])
    ELSE EmptyDict

\* lines 270-298 and 342-369: the fields create and update treat alike
SharedOptionals(event_data) ==
    Optional(event_data, "end_time", "endTime")
      @@ Optional(event_data, "location", "location")
      @@ Optional(event_data, "google_location", "googleLocation")
      @@ Optional(event_data, "rsvp_link", "eventRegistrationLink")
      @@ Optional(event_data, "group_id", "groupId")
      @@ Optional(event_data, "contact_info", "contactInfo")
      @@ Optional(event_data, "types", "types")
      @@ OptionalContents(event_data)

\* a create that sends every field, null when absent
CreateDataWithNulls(event_data) ==
    [title |-> event_data.d["title"], isEvent |-> B(TRUE), draft |-> B(TRUE),
     startTime |-> Get(event_data, "start_time", None)]
      @@ SharedOptionals(event_data)
\* a create that leaves the registration link out
CreateDataWithoutLink(event_data) ==
    [title |-> event_data.d["title"], isEvent |-> B(TRUE), draft |-> B(TRUE)]
      @@ Optional(event_data, "start_time", "startTime")
      @@ Optional(event_data, "end_time", "endTime")
      @@ OptionalContents(event_data)
\* lines 260-298
CreateData(event_data) ==
    [title |-> event_data.d["title"], isEvent |-> B(TRUE), draft |-> B(TRUE)]
      @@ Optional(event_data, "start_time", "startTime")
      @@ SharedOptionals(event_data)

build_create_post_mutation(event_data) ==
    [mutation |-> "CreatePost", variables |-> D([data |-> D(CreateData(event_data))])]

\* an update that copies create's data, draft flag included
UpdateDataAsCreate(event_data) ==
    [title |-> event_data.d["title"], startTime |-> event_data.d["start_time"], draft |-> B(TRUE)]
      @@ SharedOptionals(event_data)
\* lines 337-369
UpdateData(event_data) ==
    [title |-> event_data.d["title"], startTime |-> event_data.d["start_time"]]
      @@ SharedOptionals(event_data)

build_update_post_mutation(event_id, event_data) ==
    [mutation |-> "UpdatePost",
     variables |-> D([selector |-> D([_id |-> event_id]), data |-> D(UpdateData(event_data))])]

-----------------------------------------------------------------------------
(* the titles and public URLs of the events in the model *)

Title1 == S(<<"Picnic">>)
Title2 == S(<<"Hike">>)
Url1 == S(<<"https", ":", "/", "/", "partiful.com", "/", "e", "/", "abc">>)
Url2 == S(<<"https", ":", "/", "/", "partiful.com", "/", "e", "/", "xyz">>)
Url3 == S(<<"https", ":", "/", "/", "partiful.com", "/", "e", "/", "ref">>)

\* a markdown body that links the given URL
Body(url) == D([markdown |-> S(<<"RSVP on [Partiful](">> \o url.s \o <<")">>)])

-----------------------------------------------------------------------------
(* partiful_loader: fetch_partiful_event, parse_partiful_event,            *)
(* load_partiful_event                                                      *)

\* the events the source service holds, by identifier
PartifulEvents ==
    (<<"abc">> :> D([id |-> S(<<"abc">>), title |-> Title1,
                    description |-> S(<<"Come hang", "\n\n", "Bring snacks">>),
                    startDate |-> S(<<"2025-06-01T18:00:00Z">>)]))
    @@ (<<"xyz">> :> D([id |-> S(<<"xyz">>), title |-> Title1,
                       description |-> S(<<"Second date", "\n", "same place">>),
                       startDate |-> S(<<"2025-07-01T18:00:00Z">>),
                       endDate |-> S(<<"2025-07-01T20:00:00Z">>)]))
    \* an event of the same series whose description refers to the first one
    @@ (<<"ref">> :> D([id |-> S(<<"ref">>), title |-> Title1,
                       description |-> S(<<"Sequel to ">> \o Url1.s),
                       startDate |-> S(<<"2025-08-01T18:00:00Z">>)]))

SourceFaults == {"none", "http_error", "api_error"}

\* lines 62-86: one POST; a failure status or an "error" field fails the fetch
fetch_partiful_event(event_id, fault) ==
    IF fault = "http_error" THEN Raise("HTTPError", <<"500", "Error">>)
    ELSE IF fault = "api_error" \/ event_id.s \notin DOMAIN PartifulEvents
    THEN Raise("ValueError", <<"Partiful API error: ">>)
    ELSE Return(D([result |-> D([data |-> D([event |-> PartifulEvents[event_id.s]])])]))

\* x or y
Or(x, y) == IF Truthy(x) THEN x ELSE y

\* lines 99-133, the fields the sync uses
parse_partiful_event(raw_data) ==
    LET event_data == Get(Get(Get(raw_data, "result", D(EmptyDict)), "data", D(EmptyDict)),
                          "event", D(EmptyDict))
    IN  D([partiful_id |-> Get(event_data, "id", None),
           title |-> Get(event_data, "title", None),
           description |-> Get(event_data, "description", S(<<>>)),
           start_time |-> Get(event_data, "startDate", None),
           end_time |-> Get(event_data, "endDate", None),
           partiful_url |-> Or(Get(event_data, "publicShortUrl", None),
                               S(<<"https", ":", "/", "/", "partiful.com", "/", "e", "/">>
                                   \o str(Get(event_data, "id", None))))])

\* lines 147-149
load_partiful_event(partiful_url, fault) ==
    IF Raised(extract_event_id(partiful_url)) THEN extract_event_id(partiful_url)
    ELSE LET raw_data == fetch_partiful_event(extract_event_id(partiful_url).value, fault)
         IN  IF Raised(raw_data) THEN raw_data
             ELSE Return(parse_partiful_event(raw_data.value))

-----------------------------------------------------------------------------
(* sync_event.format_description, transform_event_data *)

\* str.split("\n\n")
RECURSIVE split_paragraphs(_)
split_paragraphs(s) ==
    LET i == FirstIn(s, {"\n\n"})
    IN  IF i = 0 THEN <<s>> ELSE <<Take(s, i - 1)>> \o split_paragraphs(Drop(s, i))

\* para.replace("\n", "<br>")
with_br(para) == [i \in 1..Len(para) |-> IF para[i] = "\n" THEN "<br>" ELSE para[i]]

\* para.strip() is not empty
NotBlank(para) == \E i \in 1..Len(para) : para[i] \notin {"\n", " "}

RECURSIVE html_paragraphs(_)
html_paragraphs(paras) ==
    IF paras = <<>> THEN <<>>
    ELSE (IF NotBlank(paras[1]) THEN <<"<p>">> \o with_br(paras[1]) \o <<"</p>">> ELSE <<>>)
           \o html_paragraphs(Tail(paras))

\* lines 68-82
format_description(partiful_description, partiful_url) ==
    S(html_paragraphs(split_paragraphs(partiful_description.s))
        \o <<"<p>RSVP and find the exact location on <a href=\"">> \o partiful_url.s
        \o <<"\">Partiful</a>.</p>">>)

\* config.toml, read by load_config
Config ==
    [location_name |-> S(<<"The Park">>), group_id |-> S(<<"g1">>),
     contact_info |-> S(<<"host@example.org">>), types |-> L(<<S(<<"LW">>)>>)]

\* lines 95-125
transform_event_data(partiful_event) ==
    D([title |-> partiful_event.d["title"],
       start_time |-> partiful_event.d["start_time"],
       end_time |-> Get(partiful_event, "end_time", None),
       location |-> Config.location_name,
       google_location |-> D([formatted_address |-> Config.location_name,
                              name |-> Config.location_name]),
       description |-> format_description(Get(partiful_event, "description", S(<<>>)),
                                          partiful_event.d["partiful_url"]),
       rsvp_link |-> partiful_event.d["partiful_url"],
       group_id |-> Config.group_id,
       contact_info |-> Config.contact_info,
       types |-> Config.types])

-----------------------------------------------------------------------------
(* The target service: the posts of the logged-in user, the drafts search, *)
(* createPost and updatePost, as the requests of lesswrong_client use them *)

ServerFaults == {"none", "transport", "rejected"}

\* the service renders the html it is given as markdown: a link keeps its URL
ToMarkdown(html) ==
    [i \in 1..Len(html) |->
        CASE html[i] \in {"<p>", "</p>"} -> "\n"
          [] html[i] = "<br>" -> "\n"
          [] html[i] = "<p>RSVP and find the exact location on <a href=\"" ->
                "RSVP and find the exact location on [Partiful]("
          [] html[i] = "\">Partiful</a>.</p>" -> ")."
          [] OTHER -> html[i]]

\* the response to a failed request, or FALSE when the request is served
FaultResponse(fault) ==
    CASE fault = "transport" ->
            [status_code |-> 500, json |-> Raise("JSONDecodeError", <<"Expecting value">>)]
      [] fault = "rejected" ->
            [status_code |-> 200,
             json |-> Return(D([errors |-> L(<<D([message |-> S(<<"Not allowed">>)]),
                                              D([message |-> S(<<"Bad input">>)])>>)]))]

Ok(data) == [status_code |-> 200, json |-> Return(D([data |-> data]))]

\* query FindEvent: the user's drafts, draft events included
SearchResponse(stored, fault) ==
    IF fault # "none" THEN FaultResponse(fault)
    ELSE Ok(D([posts |-> D([results |->
            L(SelectSeq([i \in 1..Len(stored) |-> D(stored[i])],
                        LAMBDA p : p.d["draft"] = B(TRUE)))])]))

NewId(stored) == S(<<ToString(Len(stored) + 1)>>)

RenderedContents(data) ==
    IF "contents" \in DOMAIN data
    THEN D([markdown |-> S(ToMarkdown(data["contents"].d["originalContents"].d["data"].s))])
    ELSE None

\* mutation CreatePost: the stored post, fields not sent are null
CreatedPost(stored, data) ==
    [_id |-> NewId(stored),
     title |-> data["title"],
     isEvent |-> data["isEvent"],
     draft |-> data["draft"],
     startTime |-> IF "startTime" \in DOMAIN data THEN data["startTime"] ELSE None,
     eventRegistrationLink |->
        IF "eventRegistrationLink" \in DOMAIN data THEN data["eventRegistrationLink"] ELSE None,
     contents |-> RenderedContents(data),
     url |-> S(<<"/events/">> \o NewId(stored).s)]

\* mutation UpdatePost: the fields sent replace the stored ones
UpdatedPost(post, data) ==
    [k \in DOMAIN post |->
        IF k = "contents"
        THEN (IF "contents" \in DOMAIN data THEN RenderedContents(data) ELSE post[k])
        ELSE IF k \in DOMAIN data THEN data[k] ELSE post[k]]

IndexOfId(stored, id) ==
    IF \E i \in 1..Len(stored) : stored[i]._id = id
    THEN CHOOSE i \in 1..Len(stored) : stored[i]._id = id
    ELSE 0

-----------------------------------------------------------------------------
(* lesswrong_client.create_lesswrong_event / update_lesswrong_event *)

\* a failure handed on as it was raised
Unwrapped(prefix, e) == e
\* lines 398-399 and 429-430: raise ValueError(f"Failed to ...: {e}")
Wrapped(prefix, e) == Raise("ValueError", <<prefix>> \o e.msg)

\* lines 393-399, given the response to the one request
update_lesswrong_event(response) ==
    LET result == graphql_request(response)
    IN  IF Raised(result) THEN Wrapped("Failed to update LessWrong event: ", result)
        ELSE Return(result.value.d["data"].d["updatePost"].d["data"])

\* lines 423-430, given the response to the one request
create_lesswrong_event(response) ==
    LET result == graphql_request(response)
    IN  IF Raised(result) THEN Wrapped("Failed to create LessWrong event: ", result)
        ELSE Return(Get(Get(Get(result.value, "data", D(EmptyDict)),
                            "createPost", D(EmptyDict)), "data", None))

-----------------------------------------------------------------------------
(* The orchestrator and the target service are at rest while a single      *)
(* library call is examined, and no call is examined while they run.       *)

NoRuns == lw_posts = <<>> /\ run = <<>> /\ sent = <<>> /\ started = 0
NoCall == call = [fn |-> "none"] /\ ret = NotCalled

-----------------------------------------------------------------------------
(* sync_event.sync_event: one invocation per run, FETCHING -> MATCHING ->   *)
(* BUILDING -> CREATING | UPDATING -> DONE, FAILED from any of them         *)

MaxStarts == 3

Runs == {"r1", "r2"}
Modes == {"execute", "graphiql", "dry_run"}

\* where the login token is configured: the --token option or the exported
\* LESSWRONG_TOKEN (read by click), the .env file (read by load_dotenv), nowhere
TokenSources == {"option", "dotenv", "none"}
LoginToken == S(<<"tok">>)

\* lines 130 and 145-168: the token the invocation works with
TokenOf(mode, source) ==
    CASE source = "option" -> LoginToken
      [] source = "dotenv" -> IF mode = "graphiql" THEN None ELSE LoginToken
      [] OTHER -> None

\* what the command line may name: an event by URL or by identifier, a foreign URL
CliArgs == {Url1.s, <<"xyz">>, <<"https", ":", "/", "/", "evil.com", "/", "e", "/", "abc">>}
CliArgsOfFirstEvent == {Url1.s, <<"abc">>}

IdleRun ==
    [pc |-> "IDLE", partiful_url |-> <<>>, mode |-> "execute",
     partiful_event |-> None, lw_event |-> None, existing |-> None,
     token |-> None, began |-> 0,
     action |-> "NONE", mutation |-> None, request |-> None, result |-> None,
     error |-> None, raised |-> None, failed_at |-> "NONE", requests |-> 0]

\* posts the target service may hold before the first run
StoredOther ==
    [_id |-> S(<<"1">>), title |-> Title1, isEvent |-> B(TRUE), draft |-> B(TRUE),
     startTime |-> S(<<"2025-07-01T18:00:00Z">>), eventRegistrationLink |-> Url2,
     contents |-> Body(Url2), url |-> S(<<"/events/", "1">>)]
StoredLegacy ==
    [_id |-> S(<<"1">>), title |-> Title1, isEvent |-> B(TRUE), draft |-> B(TRUE),
     startTime |-> S(<<"2025-06-01T18:00:00Z">>), eventRegistrationLink |-> None,
     contents |-> Body(Url1), url |-> S(<<"/events/", "1">>)]
StoredEmpty ==
    [_id |-> S(<<"1">>), title |-> Title1, isEvent |-> B(TRUE), draft |-> B(TRUE),
     startTime |-> None, eventRegistrationLink |-> None,
     contents |-> None, url |-> S(<<"/events/", "1">>)]

InitialPosts == {<<>>, <<StoredOther>>, <<StoredLegacy>>, <<StoredEmpty>>}
InitialPostsWithoutFirstEvent == {<<>>, <<StoredOther>>, <<StoredEmpty>>}

InitRuns(initial) ==
    /\ lw_posts \in initial
    /\ run = [r \in Runs |-> IdleRun]
    /\ sent = <<>>
    /\ started = 0
    /\ NoCall

Init == InitRuns(InitialPosts)

Finished(r) == run[r].pc \in {"IDLE", "DONE", "FAILED"}

\* line 286: the except clause of sync_event, reached from stage `at`
Failed(r, at, error, raised) ==
    [run[r] EXCEPT !.pc = "FAILED", !.failed_at = at, !.error = error, !.raised = raised]

\* the number of creates the service has applied so far
CreatesApplied == Cardinality({i \in 1..Len(sent) : sent[i].op = "createPost"})

\* lines 133-169: an invocation begins (began: the creates applied before it)
StartWith(r, args, sources) ==
    /\ Finished(r)
    /\ started < MaxStarts
    /\ \E url \in args, mode \in Modes :
       \E token \in {TokenOf(mode, source) : source \in sources} :
          run' = [run EXCEPT ![r] =
                    IF mode = "execute" /\ ~Truthy(token)
                    THEN [IdleRun EXCEPT !.pc = "FAILED", !.failed_at = "STARTING",
                                         !.partiful_url = url, !.mode = mode,
                                         !.began = CreatesApplied,
                                         !.error = Raise("SystemExit", <<"1">>)]
                    ELSE [IdleRun EXCEPT !.pc = "FETCHING", !.partiful_url = url,
                                         !.mode = mode, !.token = token,
                                         !.began = CreatesApplied]]
    /\ started' = started + 1
    /\ UNCHANGED <<lw_posts, sent, call, ret>>

\* concurrent use: every invocation is given the token on the command line
Start(r) == StartWith(r, CliArgs, {"option"})

\* sequential use: an invocation begins only when no other is under way
StartAlone(r) ==
    /\ \A q \in Runs : Finished(q)
    /\ r = "r1"
    /\ StartWith(r, CliArgsOfFirstEvent, TokenSources)

\* lines 171-180: load the event, transform it
Fetch(r) ==
    /\ run[r].pc = "FETCHING"
    /\ \E fault \in SourceFaults :
       \E loaded \in {load_partiful_event(run[r].partiful_url, fault)} :
          run' = [run EXCEPT ![r] =
                    IF Raised(loaded)
                    THEN Failed(r, "FETCHING", loaded, loaded)
                    ELSE [run[r] EXCEPT !.pc = "MATCHING",
                                        !.partiful_event = loaded.value,
                                        !.lw_event = transform_event_data(loaded.value)]]
    /\ UNCHANGED <<lw_posts, sent, started, call, ret>>

\* the drafts the service shows to the bearer of the token: its owner's, or none
Visible(stored, token) == IF token = LoginToken THEN stored ELSE <<>>

\* lines 182-188: search the target service for the event
Match(r) ==
    /\ run[r].pc = "MATCHING"
    /\ \E fault \in ServerFaults :
       \E result \in {graphql_request(SearchResponse(Visible(lw_posts, run[r].token), fault))} :
       \E found \in {find_event_by_partiful_id(result, run[r].lw_event.d["title"],
                                               run[r].partiful_event.d["partiful_url"])} :
          run' = [run EXCEPT ![r] =
                    IF Raised(found)
                    THEN Failed(r, "MATCHING", found, IF Raised(result) THEN result ELSE found)
                    ELSE [run[r] EXCEPT !.pc = "BUILDING", !.existing = found.value]]
    /\ UNCHANGED <<lw_posts, sent, started, call, ret>>

\* no record is ever taken as found
NeverExisting(existing) == FALSE
\* lines 201, 207, 244, 258: "if existing:"
IsExisting(existing) == Truthy(existing)

\* an update addressed to the first record of the service
FirstRecordId(existing) == S(<<"1">>)
\* lines 208, 260: existing['_id']
IdOfExisting(existing) == existing.d["_id"]

\* lines 206-255: build the mutation; a preview mode ends here
Build(r) ==
    /\ run[r].pc = "BUILDING"
    /\ run' = [run EXCEPT ![r] =
                 [run[r] EXCEPT
                    !.mutation =
                        IF IsExisting(run[r].existing)
                        THEN build_update_post_mutation(IdOfExisting(run[r].existing),
                                                        run[r].lw_event)
                        ELSE build_create_post_mutation(run[r].lw_event),
                    !.action = IF IsExisting(run[r].existing) THEN "UPDATE" ELSE "CREATE",
                    !.pc = IF run[r].mode # "execute" THEN "DONE"
                           ELSE IF IsExisting(run[r].existing) THEN "UPDATING"
                           ELSE "CREATING"]]
    /\ UNCHANGED <<lw_posts, sent, started, call, ret>>

\* lines 271-284 with create_lesswrong_event: one createPost request
Create(r) ==
    /\ run[r].pc = "CREATING"
    /\ IF ~Truthy(Get(run[r].lw_event, "title", None))
       THEN /\ run' = [run EXCEPT ![r] =
                         Failed(r, "CREATING",
                                Raise("ValueError", <<"Event title is required">>), None)]
            /\ UNCHANGED <<lw_posts, sent>>
       ELSE \E fault \in ServerFaults :
            \E variables \in {build_create_post_mutation(run[r].lw_event).variables} :
            \E post \in {CreatedPost(lw_posts, variables.d["data"].d)} :
            \E response \in {IF fault # "none" THEN FaultResponse(fault)
                             ELSE Ok(D([createPost |-> D([data |-> D(post)])]))} :
            \E created \in {create_lesswrong_event(response)} :
               /\ lw_posts' = IF fault = "none" THEN Append(lw_posts, post) ELSE lw_posts
               /\ sent' = IF fault = "none"
                          THEN Append(sent, [op |-> "createPost", by |-> r, id |-> post._id])
                          ELSE sent
               /\ run' = [run EXCEPT ![r] =
                            IF Raised(created)
                            THEN [Failed(r, "CREATING", created, graphql_request(response))
                                    EXCEPT !.request = variables, !.requests = @ + 1]
                            ELSE [run[r] EXCEPT !.pc = "DONE", !.request = variables,
                                                !.requests = @ + 1,
                                                !.result = created.value]]
    /\ UNCHANGED <<started, call, ret>>

\* lines 258-270 with update_lesswrong_event: one updatePost request
Update(r) ==
    /\ run[r].pc = "UPDATING"
    /\ \E fault \in ServerFaults :
       \E variables \in {build_update_post_mutation(IdOfExisting(run[r].existing),
                                                    run[r].lw_event).variables} :
       \E at \in {IndexOfId(lw_posts, variables.d["selector"].d["_id"])} :
       \E served \in {fault = "none" /\ at # 0} :
       \E post \in {IF served THEN UpdatedPost(lw_posts[at], variables.d["data"].d)
                    ELSE EmptyDict} :
       \E response \in {IF fault # "none" THEN FaultResponse(fault)
                        ELSE IF at = 0 THEN FaultResponse("rejected")
                        ELSE Ok(D([updatePost |-> D([data |-> D(post)])]))} :
       \E updated \in {update_lesswrong_event(response)} :
          /\ lw_posts' = IF served THEN [lw_posts EXCEPT ![at] = post] ELSE lw_posts
          /\ sent' = IF served
                     THEN Append(sent, [op |-> "updatePost", by |-> r,
                                        id |-> variables.d["selector"].d["_id"]])
                     ELSE sent
          /\ run' = [run EXCEPT ![r] =
                       IF Raised(updated)
                       THEN [Failed(r, "UPDATING", updated, graphql_request(response))
                               EXCEPT !.request = variables, !.requests = @ + 1]
                       ELSE [run[r] EXCEPT !.pc = "DONE", !.request = variables,
                                           !.requests = @ + 1,
                                           !.result = updated.value]]
    /\ UNCHANGED <<started, call, ret>>

Next ==
    \E r \in Runs :
        Start(r) \/ Fetch(r) \/ Match(r) \/ Build(r) \/ Create(r) \/ Update(r)

Spec == Init /\ [][Next]_vars

\* one invocation after another, all of the first event
NextAlone ==
    \E r \in Runs :
        StartAlone(r) \/ Fetch(r) \/ Match(r) \/ Build(r) \/ Create(r) \/ Update(r)

SpecAlone == InitRuns(InitialPostsWithoutFirstEvent) /\ [][NextAlone]_vars

\* two invocations for different events of equal title, interleaved at will:
\* r1 syncs event abc, r2 syncs event ref, on a service that holds nothing
CliArgsOf(r) == IF r = "r1" THEN {Url1.s} ELSE {Url3.s, <<"ref">>}

StartOwn(r) == StartWith(r, CliArgsOf(r), {"option"})

NextDifferentEvents ==
    \E r \in Runs :
        StartOwn(r) \/ Fetch(r) \/ Match(r) \/ Build(r) \/ Create(r) \/ Update(r)

SpecDifferentEvents == InitRuns({<<>>}) /\ [][NextDifferentEvents]_vars

\* invocations for one event, interleaved at will, with the token configured in
\* any way, on a service that holds nothing
StartSame(r) == StartWith(r, {Url1.s}, TokenSources)

NextSameEvent ==
    \E r \in Runs :
        StartSame(r) \/ Fetch(r) \/ Match(r) \/ Build(r) \/ Create(r) \/ Update(r)

SpecSameEvent == InitRuns({<<>>}) /\ [][NextSameEvent]_vars

-----------------------------------------------------------------------------
(* extract_event_id applied to bounded inputs *)

MaxPathLen == 4

RECURSIVE SeqsUpTo(_, _)
SeqsUpTo(T, n) ==
    IF n = 0 THEN {<<>>}
    ELSE LET shorter == SeqsUpTo(T, n - 1)
         IN  shorter \cup {Append(s, t) : s \in {x \in shorter : Len(x) = n - 1}, t \in T}

UrlPrefixes == {<<>>, <<"https", ":", "/", "/">>, <<"/", "/">>, <<"https", ":">>}
UrlHosts == {<<>>, <<"partiful.com">>, <<"www.partiful.com">>, <<"evil.com">>}
UrlPaths == SeqsUpTo({"/", "e", "abc"}, MaxPathLen)
UrlSuffixes == {<<>>, <<"?", "abc">>, <<"#", "abc">>}

InitExtract ==
    /\ NoRuns
    /\ ret = NotCalled
    /\ \E pre \in UrlPrefixes, host \in UrlHosts, path \in UrlPaths, sfx \in UrlSuffixes :
          call = [fn |-> "extract_event_id",
                  partiful_url |-> pre \o host \o path \o sfx,
                  prefix |-> pre, host |-> host, path |-> path, suffix |-> sfx]

CallExtract ==
    /\ call.fn = "extract_event_id"
    /\ ret = NotCalled
    /\ ret' = extract_event_id(call.partiful_url)
    /\ UNCHANGED <<lw_posts, run, sent, started, call>>

SpecExtract == InitExtract /\ [][CallExtract]_vars

\* the input has an authority part: "//" follows the optional scheme
HasAuthority(c) == Len(c.prefix) >= 2 /\ c.prefix[Len(c.prefix)] = "/"

\* the words that follow the "//": the domain the URL names
LeadingWords(s) == LET i == FirstIn(s, Delimiters) IN IF i = 0 THEN s ELSE Take(s, i - 1)
DomainOf(c) == LeadingWords(c.host \o c.path \o c.suffix)

\* <domain>/e/<id>: a source-service host, then the path /e/<id>, <id> one or more words
IsEventPath(path) ==
    /\ Len(path) >= 4
    /\ Take(path, 3) = <<"/", "e", "/">>
    /\ \A i \in 4..Len(path) : IsWord(path[i])
IdOf(path) == Drop(path, 3)

\* C10: for every well-formed source URL <domain>/e/<id> extract_event_id returns
\* exactly <id>; for a bare token (words only, no delimiter) it returns the token
\* itself; for every URL that names another domain it raises ValueError
\* (InvalidReference).
C10_ExtractIdentifier ==
    (call.fn = "extract_event_id" /\ ret # NotCalled) =>
        /\ (HasAuthority(call) /\ call.host \in PartifulHosts /\ IsEventPath(call.path))
              => ret = Return(S(IdOf(call.path)))
        /\ (call.partiful_url # <<>> /\ \A i \in 1..Len(call.partiful_url) : IsWord(call.partiful_url[i]))
              => ret = Return(S(call.partiful_url))
        /\ (HasAuthority(call) /\ DomainOf(call) # <<>> /\ DomainOf(call) \notin PartifulHosts)
              => (Raised(ret) /\ ret.type = "ValueError")

\* all three cases of C10 have been exercised: here the rejected foreign URL
C10_Witness ==
    /\ call.fn = "extract_event_id"
    /\ call.partiful_url = <<"https", ":", "/", "/", "evil.com", "/", "e", "/", "abc">>
    /\ Raised(ret)

-----------------------------------------------------------------------------
(* graphql_request applied to bounded responses *)

MaxErrors == 2

Statuses == {200, 404, 500}

ErrorEntries ==
    { D([message |-> S(<<"Not allowed">>)]),
      D([message |-> S(<<"Bad input">>)]),
      D([code |-> S(<<"E42">>)]) }

SomeData == D([posts |-> D([results |-> L(<<>>)])])

Bodies ==
    {D([errors |-> L(es)]) : es \in SeqsUpTo(ErrorEntries, MaxErrors)}
      \cup {D([errors |-> L(es), data |-> None]) : es \in SeqsUpTo(ErrorEntries, MaxErrors)}
      \cup {D([errors |-> None]), D(EmptyDict), D([data |-> None]), D([data |-> SomeData]), None}

JsonOutcomes ==
    {Raise("JSONDecodeError", <<"Expecting value">>)} \cup {Return(b) : b \in Bodies}

InitGateway ==
    /\ NoRuns
    /\ ret = NotCalled
    /\ \E st \in Statuses, js \in JsonOutcomes :
          call = [fn |-> "graphql_request", response |-> [status_code |-> st, json |-> js]]

CallGateway ==
    /\ call.fn = "graphql_request"
    /\ ret = NotCalled
    /\ ret' = graphql_request(call.response)
    /\ UNCHANGED <<lw_posts, run, sent, started, call>>

SpecGateway == InitGateway /\ [][CallGateway]_vars

\* the spec's error kinds, as the code raises them
IsTransportFailure(o) == Raised(o) /\ o.type \in RequestExceptions
IsRemoteRejected(o) ==
    Raised(o) /\ o.type = "ValueError" /\ o.msg # <<>> /\ o.msg[1] = "GraphQL errors: "

Decoded(response) == Returned(response.json) /\ ~IsNone(response.json.value)
HasErrorsList(response) ==
    /\ Decoded(response)
    /\ "errors" \in DOMAIN response.json.value.d
    /\ ~IsNone(response.json.value.d["errors"])
ErrorsOf(response) == response.json.value.d["errors"].l

GatewayCalled == call.fn = "graphql_request" /\ ret # NotCalled

\* C4: a decoded body with a top-level errors list makes graphql_request fail with
\* RemoteRejected (ValueError "GraphQL errors: ...") whose message holds the message
\* of every error of the list, whatever the HTTP status; never TransportFailure,
\* never a return.
C4_ErrorsAreRemoteRejected ==
    (GatewayCalled /\ HasErrorsList(call.response)) =>
        /\ IsRemoteRejected(ret)
        /\ ~IsTransportFailure(ret)
        /\ ~Returned(ret)
        /\ \A i \in 1..Len(ErrorsOf(call.response)) :
              "message" \in DOMAIN ErrorsOf(call.response)[i].d
                 => Contains(ret.msg, ErrorsOf(call.response)[i].d["message"].s)

\* HTTP 200 with two errors: both messages are in the failure
C4_Witness ==
    /\ GatewayCalled
    /\ call.response.status_code = 200
    /\ HasErrorsList(call.response)
    /\ Len(ErrorsOf(call.response)) = 2
    /\ ErrorsOf(call.response)[1] # ErrorsOf(call.response)[2]
    /\ IsRemoteRejected(ret)

\* data comes back only from a decoded body without errors under a success status
ReturnsOnlyOnSuccess ==
    Returned(ret) =>
        /\ Decoded(call.response)
        /\ "errors" \notin DOMAIN call.response.json.value.d
        /\ call.response.status_code < 400
        /\ ret.value = call.response.json.value

\* C5 as stated: an undecodable body fails with TransportFailure that surfaces the
\* HTTP status whatever the status is; data is returned only on success.
C5_Original ==
    GatewayCalled =>
        /\ Raised(call.response.json) =>
              /\ IsTransportFailure(ret)
              /\ Contains(ret.msg, <<ToString(call.response.status_code)>>)
        /\ ReturnsOnlyOnSuccess

\* C5 amended: an undecodable body always fails with TransportFailure; the failure
\* names the HTTP status when the status is a failure status (4xx, 5xx), and is the
\* decode error itself, which names no status, otherwise; data is returned only on
\* success.
C5_UndecodableIsTransportFailure ==
    GatewayCalled =>
        /\ Raised(call.response.json) =>
              /\ IsTransportFailure(ret)
              /\ call.response.status_code >= 400 =>
                    Contains(ret.msg, <<ToString(call.response.status_code)>>)
              /\ call.response.status_code < 400 => ret = call.response.json
        /\ ReturnsOnlyOnSuccess

\* HTTP 500 with an undecodable body has failed with the status in the message
C5_Witness ==
    /\ GatewayCalled
    /\ call.response.status_code = 500
    /\ Raised(call.response.json)
    /\ IsTransportFailure(ret)
    /\ Contains(ret.msg, <<"500">>)

-----------------------------------------------------------------------------
(* properties of the orchestrator *)

\* the stored posts whose registration link is the given URL
LinkedTo(url) == {i \in 1..Len(lw_posts) : lw_posts[i].eventRegistrationLink = url}

\* C1: runs of the first event made one after another, from a service that holds
\* no record of it: there is never more than one record whose registration link
\* is the event's public URL, there is exactly one once a run has completed, the
\* first completed run created it and every later one updated that same record.
C1_RepeatedRunsIdempotent ==
    /\ Cardinality(LinkedTo(Url1)) <= 1
    /\ sent # <<>> =>
          /\ sent[1].op = "createPost"
          /\ LinkedTo(Url1) = {IndexOfId(lw_posts, sent[1].id)}
          /\ \A i \in 2..Len(sent) : sent[i].op = "updatePost" /\ sent[i].id = sent[1].id
    /\ \A r \in Runs :
          (run[r].pc = "DONE" /\ run[r].mode = "execute") =>
              (sent # <<>> /\ Cardinality(LinkedTo(Url1)) = 1)

\* three completed runs beside a record of another event: still one record
C1_Witness ==
    /\ Len(sent) = 3
    /\ Len(lw_posts) = 2
    /\ lw_posts[1].eventRegistrationLink = Url2
    /\ LinkedTo(Url1) = {2}
    /\ run["r1"].pc = "DONE"

\* C2: after MATCHING the run goes to UPDATING exactly when the search returned a
\* record and to CREATING when it returned none; the update it builds, and the
\* one it executes, select the _id of the record the search returned.
C2_BranchAfterMatching ==
    \A r \in Runs :
        /\ run[r].pc = "UPDATING" => run[r].existing.py = "dict"
        /\ run[r].pc = "CREATING" => IsNone(run[r].existing)
        /\ run[r].action = "UPDATE" => run[r].existing.py = "dict"
        /\ run[r].action = "CREATE" => IsNone(run[r].existing)
        /\ (run[r].action # "NONE" /\ run[r].mode = "execute" /\ run[r].requests = 0
               /\ run[r].pc # "FAILED") =>
              run[r].pc = (IF run[r].action = "UPDATE" THEN "UPDATING" ELSE "CREATING")
        /\ run[r].action = "UPDATE" =>
              run[r].mutation.variables.d["selector"] = D([_id |-> run[r].existing.d["_id"]])
        /\ (run[r].action = "UPDATE" /\ run[r].requests > 0) =>
              run[r].request.d["selector"] = D([_id |-> run[r].existing.d["_id"]])
        /\ (run[r].action = "UPDATE" /\ run[r].pc = "DONE" /\ run[r].mode = "execute") =>
              \E i \in 1..Len(sent) :
                  sent[i] = [op |-> "updatePost", by |-> r, id |-> run[r].existing.d["_id"]]

\* a run has updated record 2, the one its search returned, not record 1
C2_Witness ==
    \E r \in Runs :
        /\ run[r].pc = "DONE"
        /\ run[r].action = "UPDATE"
        /\ run[r].mode = "execute"
        /\ run[r].existing.d["_id"] = S(<<"2">>)
        /\ run[r].request.d["selector"] = D([_id |-> S(<<"2">>)])

\* lines 201-206 and 217-222: the failure on several matches
IsDataIntegrityError(o) ==
    Raised(o) /\ o.type = "ValueError" /\ Contains(o.msg, <<"This indicates a data integrity issue.">>)

\* the kind of a failure: the transport failures are one kind
KindOf(o) == IF o.type \in RequestExceptions THEN "TransportFailure" ELSE o.type

\* C3 as stated: a failure of the gateway reaches the orchestrator as the same
\* kind, in every stage, and the stage is not tried again.
C3_Original ==
    \A r \in Runs :
        (run[r].pc = "FAILED" /\ ~IsNone(run[r].raised)) =>
            /\ KindOf(run[r].error) = KindOf(run[r].raised)
            /\ run[r].requests <= 1

\* C3 amended: every failure ends the run in FAILED with the failed stage tried
\* once.  A failure of fetch or match reaches the orchestrator as it was raised.
\* A gateway failure during create or update reaches it as a ValueError whose
\* message is "Failed to create/update LessWrong event: " followed by the message
\* of the original: a RemoteRejected keeps its kind, a TransportFailure does not.
C3_FailureReachesOrchestrator ==
    \A r \in Runs :
        (run[r].pc = "FAILED" /\ ~IsNone(run[r].raised)) =>
            /\ run[r].requests <= 1
            /\ run[r].failed_at \in {"FETCHING", "MATCHING"} =>
                  (run[r].error = run[r].raised /\ run[r].requests = 0)
            /\ run[r].failed_at \in {"CREATING", "UPDATING"} =>
                  /\ run[r].requests = 1
                  /\ run[r].error.type = "ValueError"
                  /\ run[r].error.msg =
                        <<IF run[r].failed_at = "CREATING"
                          THEN "Failed to create LessWrong event: "
                          ELSE "Failed to update LessWrong event: ">> \o run[r].raised.msg
                  /\ KindOf(run[r].raised) = "ValueError" =>
                        KindOf(run[r].error) = KindOf(run[r].raised)

\* an update met HTTP 500 with an undecodable body: the orchestrator got a ValueError
C3_Witness ==
    \E r \in Runs :
        /\ run[r].pc = "FAILED"
        /\ run[r].failed_at = "UPDATING"
        /\ IsTransportFailure(run[r].raised)
        /\ run[r].error.type = "ValueError"

\* what the search of a run holding the login token returns from the posts now stored
FoundWithToken(r) ==
    find_event_by_partiful_id(graphql_request(SearchResponse(lw_posts, "none")),
                              run[r].lw_event.d["title"],
                              run[r].partiful_event.d["partiful_url"])

\* the operation lines 206-212 build for a search result
BuiltFor(existing, lw_event) ==
    IF IsExisting(existing)
    THEN build_update_post_mutation(IdOfExisting(existing), lw_event)
    ELSE build_create_post_mutation(lw_event)

IsPreview(r) == run[r].mode \in {"graphiql", "dry_run"}

\* C11 as stated: a preview run that has ended (GraphiQL hand-off or dry run) has
\* chosen the action and built the operation and variables that a non-preview run
\* of the same event chooses and builds against the same stored posts, and it has
\* sent no request; the posts are as they were (runs are sequential here, so the
\* posts now stored are the ones the preview searched).
C11_PreviewChangesOnlyExecution ==
    \A r \in Runs :
        (IsPreview(r) /\ run[r].pc = "DONE") =>
            \E found \in {FoundWithToken(r)} :
                /\ Returned(found)
                /\ run[r].action = (IF IsExisting(found.value) THEN "UPDATE" ELSE "CREATE")
                /\ run[r].mutation = BuiltFor(found.value, run[r].lw_event)
                /\ run[r].requests = 0

\* the same, for the preview runs that hold the login token
C11_PreviewWithTokenChangesOnlyExecution ==
    \A r \in Runs :
        (IsPreview(r) /\ run[r].pc = "DONE" /\ run[r].token = LoginToken) =>
            \E found \in {FoundWithToken(r)} :
                /\ Returned(found)
                /\ run[r].action = (IF IsExisting(found.value) THEN "UPDATE" ELSE "CREATE")
                /\ run[r].mutation = BuiltFor(found.value, run[r].lw_event)
                /\ run[r].requests = 0

\* no step of a preview run changes the stored posts or sends a mutation
C11_PreviewLeavesServiceUnchanged ==
    [][\A r \in Runs :
          (IsPreview(r) /\ run'[r] # run[r] /\ ~Finished(r)) =>
              (lw_posts' = lw_posts /\ sent' = sent)]_vars

\* a preview without the token proposes a create while the event's record exists
C11_PreviewDiverges ==
    \E r \in Runs :
        /\ IsPreview(r) /\ run[r].pc = "DONE"
        /\ IsNone(run[r].token)
        /\ run[r].action = "CREATE"
        /\ LinkedTo(Url1) # {}

\* the run has executed a create to its end
HasCreated(r) ==
    run[r].pc = "DONE" /\ run[r].mode = "execute" /\ run[r].action = "CREATE"

\* the stored post with the given _id, or None
StoredWithId(id) ==
    IF IndexOfId(lw_posts, id) = 0 THEN None ELSE D(lw_posts[IndexOfId(lw_posts, id)])

\* C12: nothing guards two concurrent runs of the same event: when both have
\* finished MATCHING with no existing record and both have created, the service
\* holds two different records that carry the event's URL as registration link.
C12_ConcurrentCreatesDuplicate ==
    \A r, q \in Runs :
        (r # q /\ HasCreated(r) /\ HasCreated(q)
             /\ run[r].partiful_event = run[q].partiful_event) =>
            /\ IsNone(run[r].existing) /\ IsNone(run[q].existing)
            /\ run[r].result.d["_id"] # run[q].result.d["_id"]
            /\ \A x \in {r, q} :
                  /\ StoredWithId(run[x].result.d["_id"]) # None
                  /\ StoredWithId(run[x].result.d["_id"]).d["eventRegistrationLink"]
                        = run[x].partiful_event.d["partiful_url"]
            /\ Cardinality(LinkedTo(run[r].partiful_event.d["partiful_url"])) >= 2

\* the interleaving: both runs of event abc searched an empty service, both
\* created, and the service holds two records linked to the event's URL
C12_Witness ==
    /\ HasCreated("r1") /\ HasCreated("r2")
    /\ run["r1"].partiful_event.d["partiful_url"] = Url1
    /\ run["r2"].partiful_event.d["partiful_url"] = Url1
    /\ Len(lw_posts) = 2
    /\ LinkedTo(Url1) = {1, 2}

\* the public URL of the event a run syncs when each run keeps to its own event
UrlOfRun(r) == IF r = "r1" THEN Url1 ELSE Url3

\* C13 as stated, for event abc (run r1) and event ref (run r2) on a service that
\* held nothing: a run updates only a record that a run of its own event created,
\* and once an event has been created the service holds exactly one record that
\* carries the event's own registration link.
C13_DifferentEventsAreSafe ==
    /\ \A i \in 1..Len(sent) :
          sent[i].op = "updatePost" =>
              \E j \in 1..(i - 1) :
                  sent[j] = [op |-> "createPost", by |-> sent[i].by, id |-> sent[i].id]
    /\ \A r \in Runs :
          (\E i \in 1..Len(sent) : sent[i].op = "createPost" /\ sent[i].by = r) =>
              Cardinality(LinkedTo(UrlOfRun(r))) = 1

\* event ref was created as record 1, then the run of event abc updated record 1:
\* no record carries the URL of event ref any more
C13_Overwritten ==
    /\ Len(sent) >= 2
    /\ sent[1] = [op |-> "createPost", by |-> "r2", id |-> S(<<"1">>)]
    /\ sent[2] = [op |-> "updatePost", by |-> "r1", id |-> S(<<"1">>)]
    /\ LinkedTo(Url3) = {}
    /\ LinkedTo(Url1) = {1}

\* the service holds two or more draft events with the title and the link of event abc
HasDuplicates ==
    Cardinality({i \in LinkedTo(Url1) :
                    /\ lw_posts[i].title = Title1
                    /\ lw_posts[i].isEvent = B(TRUE)
                    /\ lw_posts[i].draft = B(TRUE)}) >= 2

\* the run began when the duplicates were there: two creates had been applied
BeganAfterDuplicates(r) == run[r].pc # "IDLE" /\ run[r].began >= 2

\* the run got an answer to its search: it is past MATCHING, or it failed there
\* on what the search returned
HasSearched(r) ==
    \/ run[r].pc \in {"BUILDING", "CREATING", "UPDATING", "DONE"}
    \/ /\ run[r].pc = "FAILED" /\ run[r].failed_at = "MATCHING"
       /\ ~IsTransportFailure(run[r].raised) /\ ~IsRemoteRejected(run[r].raised)

\* C14 as stated, for event abc duplicated by the concurrent-create race: a run
\* that begins once the service holds the duplicates sends no create or update,
\* and when it gets an answer to its search it ends in FAILED with
\* DataIntegrityError.
C14_DuplicatesBlockLaterRuns ==
    \A r \in Runs :
        BeganAfterDuplicates(r) =>
            /\ HasDuplicates
            /\ run[r].requests = 0
            /\ run[r].pc \notin {"CREATING", "UPDATING"}
            /\ HasSearched(r) =>
                  (run[r].pc = "FAILED" /\ IsDataIntegrityError(run[r].error))

\* the same, for the later runs that hold the login token
C14_DuplicatesBlockLaterRunsWithToken ==
    \A r \in Runs :
        (BeganAfterDuplicates(r) /\ run[r].token = LoginToken) =>
            /\ HasDuplicates
            /\ run[r].requests = 0
            /\ run[r].pc \notin {"CREATING", "UPDATING"}
            /\ HasSearched(r) =>
                  (run[r].pc = "FAILED" /\ IsDataIntegrityError(run[r].error))

\* no run that began after the duplicates sends a mutation, token or not
C14_LaterRunsSendNothing ==
    \A r \in Runs :
        BeganAfterDuplicates(r) =>
            (run[r].requests = 0 /\ run[r].pc \notin {"CREATING", "UPDATING"})

\* after the race a dry run without the token has ended proposing a third create
C14_PreviewPastDuplicates ==
    /\ HasDuplicates
    /\ \E r \in Runs :
          /\ IsPreview(r) /\ run[r].pc = "DONE"
          /\ IsNone(run[r].token)
          /\ run[r].action = "CREATE"
          /\ BeganAfterDuplicates(r)

\* after the race a later run holding the token has failed in MATCHING
C14_LaterRunBlocked ==
    /\ HasDuplicates
    /\ \E r \in Runs :
          /\ run[r].pc = "FAILED" /\ run[r].failed_at = "MATCHING"
          /\ run[r].mode = "execute"
          /\ BeganAfterDuplicates(r)
          /\ IsDataIntegrityError(run[r].error)

-----------------------------------------------------------------------------
(* the payload builders applied to bounded event data *)

EventDatas ==
    { D([title |-> Title1, start_time |-> st, end_time |-> et, location |-> loc,
         google_location |-> gl, rsvp_link |-> rl, group_id |-> gid,
         contact_info |-> ci, types |-> ty, description |-> de]) :
        st \in {None, S(<<"2025-06-01T18:00:00Z">>)},
        et \in {None, S(<<"2025-06-01T20:00:00Z">>)},
        loc \in {None, S(<<>>), S(<<"Park">>)},
        gl \in {None, D([name |-> S(<<"Park">>)])},
        rl \in {None, Url1},
        gid \in {None, S(<<"g1">>)},
        ci \in {None, S(<<>>), S(<<"me">>)},
        ty \in {None, L(<<>>), L(<<S(<<"LW">>)>>)},
        de \in {None, S(<<"<p>Hi</p>">>)} }

EventIds == {S(<<"id1">>), S(<<"id2">>)}

InitBuild ==
    /\ NoRuns
    /\ ret = NotCalled
    /\ \/ \E ed \in EventDatas :
             call = [fn |-> "build_create_post_mutation", event_data |-> ed]
       \/ \E id \in EventIds, ed \in EventDatas :
             call = [fn |-> "build_update_post_mutation", event_id |-> id, event_data |-> ed]

CallBuildCreate ==
    /\ call.fn = "build_create_post_mutation"
    /\ ret = NotCalled
    /\ ret' = Return(build_create_post_mutation(call.event_data))
    /\ UNCHANGED <<lw_posts, run, sent, started, call>>

CallBuildUpdate ==
    /\ call.fn = "build_update_post_mutation"
    /\ ret = NotCalled
    /\ ret' = Return(build_update_post_mutation(call.event_id, call.event_data))
    /\ UNCHANGED <<lw_posts, run, sent, started, call>>

SpecBuild == InitBuild /\ [][CallBuildCreate \/ CallBuildUpdate]_vars

\* the optional fields of a SyncTargetEvent and their names on the wire
WireName ==
    [start_time |-> "startTime", end_time |-> "endTime", location |-> "location",
     google_location |-> "googleLocation", rsvp_link |-> "eventRegistrationLink",
     group_id |-> "groupId", contact_info |-> "contactInfo", types |-> "types",
     description |-> "contents"]

Absent(event_data, key) == IsNone(Get(event_data, key, None))

SentData(o) == o.value.variables.d["data"].d

\* C8: build_create_post_mutation always sends draft = true and isEvent = true;
\* an optional field absent on the input is not a key of the payload, no key
\* carries null, and with only the title set the keys are exactly title,
\* isEvent and draft.
C8_BuildCreate ==
    (call.fn = "build_create_post_mutation" /\ ret # NotCalled) =>
        /\ SentData(ret)["draft"] = B(TRUE)
        /\ SentData(ret)["isEvent"] = B(TRUE)
        /\ SentData(ret)["title"] = call.event_data.d["title"]
        /\ \A key \in DOMAIN WireName :
              Absent(call.event_data, key) => WireName[key] \notin DOMAIN SentData(ret)
        /\ \A k \in DOMAIN SentData(ret) : ~IsNone(SentData(ret)[k])
        /\ (\A key \in DOMAIN WireName : Absent(call.event_data, key))
              => DOMAIN SentData(ret) = {"title", "isEvent", "draft"}

\* a create from an event with only its title set
C8_Witness ==
    /\ call.fn = "build_create_post_mutation"
    /\ ret # NotCalled
    /\ \A key \in DOMAIN WireName : Absent(call.event_data, key)
    /\ DOMAIN SentData(ret) = {"title", "isEvent", "draft"}

\* C9: build_update_post_mutation addresses selector _id = event_id; its data always
\* holds title and startTime, never draft; every other field is sent exactly when
\* create sends it, under the same name and with the same value.
C9_BuildUpdate ==
    (call.fn = "build_update_post_mutation" /\ ret # NotCalled) =>
        /\ ret.value.variables.d["selector"] = D([_id |-> call.event_id])
        /\ {"title", "startTime"} \subseteq DOMAIN SentData(ret)
        /\ SentData(ret)["title"] = call.event_data.d["title"]
        /\ SentData(ret)["startTime"] = call.event_data.d["start_time"]
        /\ "draft" \notin DOMAIN SentData(ret)
        /\ \A key \in DOMAIN WireName \ {"start_time"} :
              /\ Absent(call.event_data, key) => WireName[key] \notin DOMAIN SentData(ret)
              /\ WireName[key] \in DOMAIN SentData(ret)
                   <=> WireName[key] \in DOMAIN CreateData(call.event_data)
              /\ WireName[key] \in DOMAIN SentData(ret)
                   => SentData(ret)[WireName[key]] = CreateData(call.event_data)[WireName[key]]
        /\ DOMAIN SentData(ret) \subseteq {"title"} \cup {WireName[key] : key \in DOMAIN WireName}

\* an update of record id2 from an event without start time and without end time
C9_Witness ==
    /\ call.fn = "build_update_post_mutation"
    /\ ret # NotCalled
    /\ call.event_id = S(<<"id2">>)
    /\ Absent(call.event_data, "start_time")
    /\ Absent(call.event_data, "end_time")
    /\ ~Absent(call.event_data, "rsvp_link")
    /\ "eventRegistrationLink" \in DOMAIN SentData(ret)

-----------------------------------------------------------------------------
(* find_event_by_partiful_id applied to bounded search responses *)

MaxResults == 3

PostShapes ==
    { \* synced by this tool: link and body both name the event
      [isEvent |-> B(TRUE), title |-> Title1, eventRegistrationLink |-> Url1,
       contents |-> Body(Url1), draft |-> B(TRUE)],
      \* the same link, other fields different
      [isEvent |-> B(TRUE), title |-> Title1, eventRegistrationLink |-> Url1,
       contents |-> None, draft |-> B(FALSE)],
      \* an older sync: the link is in the body only
      [isEvent |-> B(TRUE), title |-> Title1, eventRegistrationLink |-> None,
       contents |-> Body(Url1), draft |-> B(TRUE)],
      \* same title, neither link nor contents
      [isEvent |-> B(TRUE), title |-> Title1, eventRegistrationLink |-> None,
       contents |-> None, draft |-> B(TRUE)],
      \* same title, contents without markdown
      [isEvent |-> B(TRUE), title |-> Title1, eventRegistrationLink |-> None,
       contents |-> D([markdown |-> None]), draft |-> B(TRUE)],
      \* another event under the same title
      [isEvent |-> B(TRUE), title |-> Title1, eventRegistrationLink |-> Url2,
       contents |-> Body(Url2), draft |-> B(TRUE)],
      \* not an event
      [isEvent |-> B(FALSE), title |-> Title1, eventRegistrationLink |-> Url1,
       contents |-> Body(Url1), draft |-> B(TRUE)],
      \* another title
      [isEvent |-> B(TRUE), title |-> Title2, eventRegistrationLink |-> Url1,
       contents |-> Body(Url1), draft |-> B(TRUE)] }

\* the records of a response, each with its own _id
WithIds(shapes) ==
    [i \in 1..Len(shapes) |-> D(shapes[i] @@ ("_id" :> S(<<ToString(i)>>)))]

SearchResults ==
    {D([data |-> D([posts |-> D([results |-> L(WithIds(ps))])])]) :
        ps \in SeqsUpTo(PostShapes, MaxResults)}
      \cup {D(EmptyDict), D([data |-> None]), D([data |-> D([posts |-> None])]),
            D([data |-> D([posts |-> D([results |-> None])])])}

InitMatcher ==
    /\ NoRuns
    /\ ret = NotCalled
    /\ \E res \in SearchResults :
          call = [fn |-> "find_event_by_partiful_id", result |-> Return(res),
                  title |-> Title1, partiful_url |-> Url1]

CallMatcher ==
    /\ call.fn = "find_event_by_partiful_id"
    /\ ret = NotCalled
    /\ ret' = find_event_by_partiful_id(call.result, call.title, call.partiful_url)
    /\ UNCHANGED <<lw_posts, run, sent, started, call>>

SpecMatcher == InitMatcher /\ [][CallMatcher]_vars

MatcherCalled == call.fn = "find_event_by_partiful_id" /\ ret # NotCalled

\* the records of the response, <<>> when it carries no list of results
ResultsOf(c) ==
    LET data == Get(c.result.value, "data", None)
        posts_output == IF IsNone(data) THEN None ELSE Get(data, "posts", None)
        results == IF IsNone(posts_output) THEN None ELSE Get(posts_output, "results", None)
    IN  IF IsNone(results) THEN <<>> ELSE results.l

\* the candidates: flagged as events, with exactly the requested title
Candidates(c) ==
    {i \in 1..Len(ResultsOf(c)) :
        /\ ResultsOf(c)[i].d["isEvent"] = B(TRUE)
        /\ ResultsOf(c)[i].d["title"] = c.title}
ByLink(c) ==
    {i \in Candidates(c) : ResultsOf(c)[i].d["eventRegistrationLink"] = c.partiful_url}
HasBody(p) == ~IsNone(p.d["contents"]) /\ ~IsNone(p.d["contents"].d["markdown"])
ByBody(c) ==
    {i \in Candidates(c) :
        /\ HasBody(ResultsOf(c)[i])
        /\ Contains(ResultsOf(c)[i].d["contents"].d["markdown"].s, c.partiful_url.s)}

\* C6: two or more candidates (events with the requested title) whose registration
\* link equals the source URL make the search fail with DataIntegrityError, however
\* their other fields (contents, draft flag, _id) differ; none of them is returned.
C6_AmbiguityIsFatal ==
    (MatcherCalled /\ Cardinality(ByLink(call)) >= 2) =>
        (IsDataIntegrityError(ret) /\ ~Returned(ret))

\* two link matches that differ in contents and draft flag: the search has failed
C6_Witness ==
    /\ MatcherCalled
    /\ \E i, j \in ByLink(call) :
          /\ i # j
          /\ ResultsOf(call)[i].d["contents"] # ResultsOf(call)[j].d["contents"]
          /\ ResultsOf(call)[i].d["draft"] # ResultsOf(call)[j].d["draft"]
    /\ IsDataIntegrityError(ret)

\* C7 as stated: exactly one link match is returned whatever the bodies say; with
\* no link match, exactly one candidate whose body contains the URL is returned,
\* more than one is DataIntegrityError, and none gives absent.
C7_TwoTierOrder ==
    MatcherCalled =>
        /\ Cardinality(ByLink(call)) = 1 =>
              \E i \in ByLink(call) : ret = Return(ResultsOf(call)[i])
        /\ (ByLink(call) = {} /\ Cardinality(ByBody(call)) = 1) =>
              \E i \in ByBody(call) : ret = Return(ResultsOf(call)[i])
        /\ (ByLink(call) = {} /\ Cardinality(ByBody(call)) > 1) => IsDataIntegrityError(ret)
        /\ (ByLink(call) = {} /\ ByBody(call) = {}) => ret = Return(None)

\* C15 as stated: on every decoded search response the search ends in a record
\* of the response, in absent, or in DataIntegrityError, and in nothing else.
C15_MatcherIsTotal ==
    MatcherCalled =>
        \/ ret = Return(None)
        \/ \E i \in 1..Len(ResultsOf(call)) : ret = Return(ResultsOf(call)[i])
        \/ IsDataIntegrityError(ret)

\* a single candidate without link whose contents is null: the search has raised
\* AttributeError
C15_NullContentsRaises ==
    /\ MatcherCalled
    /\ Len(ResultsOf(call)) = 1
    /\ Candidates(call) = {1}
    /\ IsNone(ResultsOf(call)[1].d["contents"])
    /\ Raised(ret) /\ ret.type = "AttributeError"

====
